---- MODULE Spec2Model ----
(***************************************************************************)
(* Counselor agent: the per-connection message loop of                     *)
(* CounselorWebSocketServer.handle_client (websocket.py) and the analysis  *)
(* and result repair of CounselorAgent.analyze_conversation                *)
(* (counselor_agent.py).                                                   *)
(***************************************************************************)
EXTENDS Integers, Sequences, FiniteSets, TLC

(***************************************************************************)
(* JSON / Python values.  A string is a sequence of units: a unit is a     *)
(* word or the whitespace unit " ".  A dict is a function from keys.       *)
(***************************************************************************)
JStr(s) == [t |-> "str", v |-> s]

JNum(n) == [t |-> "num", v |-> <<n>>]

JNull == [t |-> "null", v |-> <<>>]

JList(items) == [t |-> "list", v |-> items]

JObj(f) == [t |-> "obj", v |-> f]

EmptyDict == <<>>

\* Python truth value of a JSON value ("if x", "not x").
Truthy(x) ==
  CASE x.t = "str"  -> x.v # <<>>
    [] x.t = "list" -> x.v # <<>>
    [] x.t = "obj"  -> DOMAIN x.v # {}
    [] x.t = "num"  -> x.v[1] # 0
    [] x.t = "null" -> FALSE

\* dict.get(key, default)
Get(d, k, default) == IF k \in DOMAIN d.v THEN d.v[k] ELSE default

\* d[key] = val on a dict held as a function
SetKey(f, k, val) == [x \in (DOMAIN f) \cup {k} |-> IF x = k THEN val ELSE f[x]]

(***************************************************************************)
(* str.lower() and str.strip() on unit sequences.                          *)
(***************************************************************************)
LowerUnit(u) ==
  CASE u = "Sad"       -> "sad"
    [] u = "Patient"   -> "patient"
    [] u = "Counselor" -> "counselor"
    [] u = "Doctor"    -> "doctor"
    [] OTHER           -> u

StrLower(s) == [i \in 1..Len(s) |-> LowerUnit(s[i])]

IsSpace(u) == u = " "

RECURSIVE LStrip(_)
LStrip(s) == IF s # <<>> /\ IsSpace(Head(s)) THEN LStrip(Tail(s)) ELSE s

RECURSIVE RStrip(_)
RStrip(s) ==
  IF s # <<>> /\ IsSpace(s[Len(s)]) THEN RStrip(SubSeq(s, 1, Len(s) - 1)) ELSE s

StrStrip(s) == RStrip(LStrip(s))

(***************************************************************************)
(* Text is a sequence of tokens: the structural tokens of JSON, the units  *)
(* of strings and prose, the fence token and the word json.                *)
(***************************************************************************)
Quote == "\""

Fence == "FENCE"

KeyOrder ==
  <<"problems", "nudges", "sentiment", "follow_up", "risk", "a", "b", "c">>

RECURSIVE Encode(_)
RECURSIVE EncodeItems(_)
RECURSIVE EncodePairs(_, _)
\* The JSON text of a value (compact, keys in KeyOrder).
Encode(x) ==
  CASE x.t = "str"  -> <<Quote>> \o x.v \o <<Quote>>
    [] x.t = "num"  -> <<ToString(x.v[1])>>
    [] x.t = "null" -> <<"null">>
    [] x.t = "list" -> <<"[">> \o EncodeItems(x.v) \o <<"]">>
    [] x.t = "obj"  ->
         <<"{">> \o EncodePairs(x.v, SelectSeq(KeyOrder, LAMBDA k : k \in DOMAIN x.v))
                 \o <<"}">>

EncodeItems(items) ==
  IF items = <<>> THEN <<>>
  ELSE IF Len(items) = 1 THEN Encode(items[1])
  ELSE Encode(items[1]) \o <<",">> \o EncodeItems(Tail(items))

EncodePairs(f, keys) ==
  IF keys = <<>> THEN <<>>
  ELSE LET one == <<Quote, keys[1], Quote, ":">> \o Encode(f[keys[1]])
       IN  IF Len(keys) = 1 THEN one
           ELSE one \o <<",">> \o EncodePairs(f, Tail(keys))

(***************************************************************************)
(* Values the analyzer may put in its answer, and the texts built from     *)
(* them.                                                                   *)
(***************************************************************************)
Word(u) == JStr(<<u>>)

LP == JList(<<Word("p")>>)

LN1 == JList(<<Word("n1")>>)

LN2 == JList(<<Word("n2")>>)

SentNorm == JList(<<Word("sad")>>)

SentRaw == JList(<<JStr(<<"Sad", " ">>)>>)

LRisk == JList(<<Word("low")>>)

FullValid ==
  [problems |-> LP, nudges |-> LN1, sentiment |-> SentNorm,
   follow_up |-> Word("f"), risk |-> LRisk]

FullRaw == [FullValid EXCEPT !.sentiment = SentRaw]

FullFence == [FullValid EXCEPT !.problems = JList(<<JStr(<<Fence, "x", Fence>>)>>)]

FullEmpty ==
  [problems |-> JList(<<>>), nudges |-> JList(<<>>), sentiment |-> JList(<<>>),
   follow_up |-> JStr(<<>>), risk |-> JList(<<>>)]

AnalyzerDicts ==
  { FullValid, FullRaw, FullFence, FullEmpty, EmptyDict,
    [nudges |-> LN2],
    [nudges |-> JNum(5)],
    [problems |-> Word("p")],
    [problems |-> JNull, nudges |-> LN1],
    [sentiment |-> Word("Sad")],
    [sentiment |-> JList(<<JNum(5)>>)],
    [sentiment |-> JList(<<>>)],
    [nudges |-> LN1, sentiment |-> SentRaw],
    [follow_up |-> JNum(5), risk |-> Word("low")],
    [a |-> JObj([b |-> JNum(1)])],
    [a |-> JObj([b |-> JObj([c |-> JNum(1)])])],
    [problems |-> JList(<<JStr(<<"a", "}", "b">>)>>)],
    [problems |-> JList(<<JStr(<<Fence, "x", Fence>>)>>), nudges |-> LN1] }

AnalyzerNonDicts == { JList(<<JNum(1)>>), JNum(5), Word("abc"), JNull }

AnalyzerValues == {JObj(f) : f \in AnalyzerDicts} \cup AnalyzerNonDicts

RECURSIVE Descendants(_)
Descendants(x) ==
  {x} \cup
  CASE x.t = "list" -> UNION {Descendants(x.v[i]) : i \in 1..Len(x.v)}
    [] x.t = "obj"  -> UNION {Descendants(x.v[k]) : k \in DOMAIN x.v}
    [] OTHER        -> {}

\* Every value some text of the model can contain.
JsonUniverse == UNION {Descendants(x) : x \in AnalyzerValues}

EncodeTable == [x \in JsonUniverse |-> Encode(x)]

WrapBare(e) == e

WrapPadded(e) == <<" ">> \o e \o <<" ">>

WrapProse(e) == <<"x", " ">> \o e \o <<" ", "y">>

WrapFencedJson(e) == <<"x", " ", Fence, "json", " ">> \o e \o <<" ", Fence>>

WrapFenced(e) == <<Fence, " ">> \o e \o <<" ", Fence>>

WrapTruncated(e) == SubSeq(e, 1, Len(e) - 1)

WrapTwice(e) == e \o <<" ">> \o e

Texts ==
  UNION { { WrapBare(EncodeTable[x]), WrapPadded(EncodeTable[x]),
            WrapProse(EncodeTable[x]), WrapFencedJson(EncodeTable[x]),
            WrapFenced(EncodeTable[x]), WrapTruncated(EncodeTable[x]),
            WrapTwice(EncodeTable[x]) } : x \in AnalyzerValues }
  \cup { <<>>, <<"x">>, <<"x", " ", "{", "y">>, <<"}", "x", "{">> }

(***************************************************************************)
(* json.loads: the value whose JSON text is the given text (surrounding    *)
(* whitespace allowed), or a JSONDecodeError.                              *)
(***************************************************************************)
JsonLoads(text) ==
  LET m == {x \in JsonUniverse : EncodeTable[x] = StrStrip(text)}
  IN  IF m = {} THEN [ok |-> FALSE, val |-> JNull]
      ELSE [ok |-> TRUE, val |-> CHOOSE x \in m : TRUE]

(***************************************************************************)
(* str.split pieces and the substring test (in).                            *)
(***************************************************************************)
RECURSIVE IndexOf(_, _, _)
\* Least i >= from where pat occurs in text, or 0.
IndexOf(text, pat, from) ==
  IF from + Len(pat) - 1 > Len(text) THEN 0
  ELSE IF SubSeq(text, from, from + Len(pat) - 1) = pat THEN from
  ELSE IndexOf(text, pat, from + 1)

Contains(text, pat) == IndexOf(text, pat, 1) # 0

\* text.split(sep)[0]
Split0(text, sep) ==
  IF Contains(text, sep) THEN SubSeq(text, 1, IndexOf(text, sep, 1) - 1) ELSE text

\* text.split(sep)[1], for a text that contains sep
Split1(text, sep) ==
  Split0(SubSeq(text, IndexOf(text, sep, 1) + Len(sep), Len(text)), sep)

FenceJson == <<Fence, "json">>

\* counselor_agent.py lines 100-104
StripFences(content) ==
  LET t == StrStrip(content)
  IN  IF Contains(t, FenceJson)
        THEN StrStrip(Split0(Split1(t, FenceJson), <<Fence>>))
      ELSE IF Contains(t, <<Fence>>)
        THEN StrStrip(Split0(Split1(t, <<Fence>>), <<Fence>>))
      ELSE t

(***************************************************************************)
(* re.search with the pattern  { nonbrace* ( { nonbrace* } nonbrace* )* }     *)
(***************************************************************************)
RECURSIVE ScanBody(_, _, _)
\* Index of the closing brace of a match whose body is scanned from j at
\* the given nesting depth, or 0 when the match fails.
ScanBody(text, j, depth) ==
  IF j > Len(text) THEN 0
  ELSE IF text[j] = "{" THEN (IF depth = 1 THEN ScanBody(text, j + 1, 2) ELSE 0)
  ELSE IF text[j] = "}" THEN (IF depth = 2 THEN ScanBody(text, j + 1, 1) ELSE j)
  ELSE ScanBody(text, j + 1, depth)

MatchStarts(text) ==
  {i \in 1..Len(text) : text[i] = "{" /\ ScanBody(text, i + 1, 1) # 0}

\* The leftmost match, or no match.
BraceSearch(text) ==
  IF MatchStarts(text) = {} THEN [found |-> FALSE, group |-> <<>>]
  ELSE LET i == CHOOSE k \in MatchStarts(text) : \A l \in MatchStarts(text) : k <= l
       IN  [found |-> TRUE, group |-> SubSeq(text, i, ScanBody(text, i + 1, 1))]

(***************************************************************************)
(* CounselorAgent.analyze_conversation: the result records and the repair  *)
(* of the parsed answer.                                                   *)
(***************************************************************************)
EmptyList == JList(<<>>)

DefaultSentiment == JList(<<Word("neutral")>>)

\* counselor_agent.py line 31
EarlyResult ==
  [problems |-> EmptyList, nudges |-> EmptyList, sentiment |-> DefaultSentiment]

\* counselor_agent.py lines 152-158
DegradedResult ==
  [problems |-> JList(<<Word("Unable to analyze")>>),
   nudges |-> JList(<<Word("Review conversation manually")>>),
   sentiment |-> DefaultSentiment, follow_up |-> JStr(<<>>), risk |-> EmptyList]

\* ErrorResult confused with the record of the parse failure.
ErrorResultAsDegraded == DegradedResult

\* counselor_agent.py lines 163-169
ErrorResult ==
  [problems |-> JList(<<Word("Error occurred")>>), nudges |-> EmptyList,
   sentiment |-> DefaultSentiment, follow_up |-> JStr(<<>>), risk |-> EmptyList]

\* How a call ends: it returns a dict, or it raises.
Return(f) == [raised |-> "none", result |-> f]

Raise(kind) == [raised |-> kind, result |-> EmptyDict]

\* "k" not in result or not isinstance(result["k"], list)
NeedsList(f, k) == k \notin DOMAIN f \/ f[k].t # "list"

\* lines 107-112 and 133-142
RepairLists(f) ==
  LET f1 == IF NeedsList(f, "problems") THEN SetKey(f, "problems", EmptyList) ELSE f
      f2 == IF NeedsList(f1, "nudges") THEN SetKey(f1, "nudges", EmptyList) ELSE f1
  IN  IF NeedsList(f2, "sentiment") THEN SetKey(f2, "sentiment", DefaultSentiment)
      ELSE f2

\* lines 117-120 and 143-146
RepairRest(f) ==
  LET f1 == IF "follow_up" \notin DOMAIN f THEN SetKey(f, "follow_up", JStr(<<>>)) ELSE f
  IN  IF "risk" \notin DOMAIN f1 THEN SetKey(f1, "risk", EmptyList) ELSE f1

\* lines 113-116: [word.lower().strip() for word in result["sentiment"]]
LowerSentiment(f) ==
  IF Truthy(f["sentiment"])
    THEN SetKey(f, "sentiment",
           JList([i \in 1..Len(f["sentiment"].v) |->
                    JStr(StrStrip(StrLower(f["sentiment"].v[i].v)))]))
    ELSE f

\* lines 107-122, on the value json.loads returned
StrictPath(val) ==
  IF val.t # "obj" THEN Raise("TypeError")
  ELSE LET f == RepairLists(val.v)
       IN  IF Truthy(f["sentiment"])
              /\ \E i \in 1..Len(f["sentiment"].v) : f["sentiment"].v[i].t # "str"
             THEN Raise("AttributeError")
           ELSE Return(RepairRest(LowerSentiment(f)))

\* lines 123-158: the handler of json.JSONDecodeError
FallbackPath(result_text) ==
  LET json_match == BraceSearch(result_text)
      parsed     == JsonLoads(json_match.group)
  IN  IF json_match.found /\ parsed.ok
        THEN Return(RepairRest(RepairLists(parsed.val.v)))
        ELSE Return(DegradedResult)

\* CatchAll without the handler: the exception leaves analyze_conversation.
CatchAllReraise(outcome) == outcome

\* lines 159-169: except Exception
CatchAll(outcome) == IF outcome.raised # "none" THEN Return(ErrorResult) ELSE outcome

\* lines 100-169 once the request has returned its content
Normalize(content) ==
  LET result_text == StripFences(content)
      loaded      == JsonLoads(result_text)
  IN  IF loaded.ok THEN CatchAll(StrictPath(loaded.val))
      ELSE FallbackPath(result_text)

NormalizeTable == [content \in Texts |-> Normalize(content)]

(***************************************************************************)
(* Inbound messages: the text of a frame is either not JSON or the JSON    *)
(* text of a value (json.loads of websocket.py line 55).                   *)
(***************************************************************************)
BadJson == [wf |-> FALSE, data |-> JNull]

WellFormed(d) == [wf |-> TRUE, data |-> d]

Turn(speaker, text) == JObj([speaker |-> speaker, text |-> text])

TPatient == Turn(Word("patient"), Word("hi"))

TPatientCap == Turn(Word("Patient"), Word("hi"))

TCounselor == Turn(Word("counselor"), Word("ok"))

TDoctor == Turn(Word("Doctor"), Word("hi"))

TNoSpeaker == JObj([text |-> Word("hi")])

TNullSpeaker == JObj([speaker |-> JNull, text |-> Word("hi")])

TEmptyText == Turn(Word("patient"), JStr(<<>>))

TNoText == JObj([speaker |-> Word("counselor")])

TNumSpeakerEmptyText == JObj([speaker |-> JNum(5), text |-> JStr(<<>>)])

TranscriptLists ==
  { <<>>, <<TPatient>>, <<TCounselor, TPatient>>, <<TPatient, TCounselor>>,
    <<TCounselor>>, <<TPatientCap>>, <<TDoctor>>, <<TNoSpeaker>>,
    <<TNullSpeaker>>, <<TEmptyText>>, <<TNoText>>, <<TNumSpeakerEmptyText>>,
    <<JNum(5), TPatient>>, <<Word("abc"), TCounselor>>, <<TPatient, JNum(5)>>,
    <<TPatient, JNull>>, <<JObj(EmptyDict)>> }

TranscriptsValues ==
  {JList(l) : l \in TranscriptLists}
  \cup { Word("abc"), JNum(5), JNum(0), JNull, JObj([a |-> JNum(1)]) }

Messages ==
  { BadJson }
  \cup {WellFormed(JObj([type |-> Word("transcript"), transcripts |-> ts])) :
          ts \in TranscriptsValues}
  \cup {WellFormed(d) :
          d \in { JObj([type |-> Word("transcript")]),
                  JObj([type |-> Word("ping")]),
                  JObj([type |-> Word("ping"), transcripts |-> JList(<<TPatient>>)]),
                  JObj([type |-> Word("foo")]),
                  JObj([type |-> Word("Ping")]),
                  JObj([type |-> JNum(5)]),
                  JObj([transcripts |-> JList(<<TPatient>>)]),
                  JObj(EmptyDict),
                  JList(<<>>), JNum(5), Word("ping"), JNull }}

(***************************************************************************)
(* Replies (websocket.py).                                                 *)
(***************************************************************************)
\* str(x) inside an f-string
PyStr(x) ==
  CASE x.t = "str"  -> x.v
    [] x.t = "num"  -> <<ToString(x.v[1])>>
    [] x.t = "null" -> <<"None">>
    [] OTHER        -> <<"repr">>

\* lines 44-51
ConnectedReply ==
  [type |-> "connected",
   message |-> <<"Connected to Counselor Agent. Send full transcripts array to get analysis.">>]

\* lines 87-98
AnalysisReply(analysis) ==
  [type |-> "analysis",
   problems  |-> Get(JObj(analysis), "problems", EmptyList),
   nudges    |-> Get(JObj(analysis), "nudges", EmptyList),
   sentiment |-> Get(JObj(analysis), "sentiment", DefaultSentiment)]

\* lines 101-108
AcknowledgedReply == [type |-> "acknowledged", message |-> <<"Transcript received">>]

\* PongReply with another message text.
PongReplyOk == [type |-> "pong", message |-> <<"ok">>]

\* lines 111-113
PongReply == [type |-> "pong", message |-> <<"alive">>]

\* UnknownTypeReply without the received value.
UnknownTypeReplyNoValue(data) ==
  [type |-> "error", message |-> <<"Unknown message type: ">>]

\* lines 115-122
UnknownTypeReply(data) ==
  [type |-> "error",
   message |-> <<"Unknown message type: ">> \o PyStr(Get(data, "type", JNull))]

\* lines 127-129
InvalidJsonReply == [type |-> "error", message |-> <<"Invalid JSON format">>]

\* ErrorReply without the description.
ErrorReplyNoDescription(kind) == [type |-> "error", message |-> <<"Error">>]

\* lines 137-139: the description is the kind of the exception
ErrorReply(kind) == [type |-> "error", message |-> <<"Error: ", kind>>]

(***************************************************************************)
(* One pass of the message loop up to the analyzer call.  An effect is    *)
(* what the pass does: send a reply, skip (continue), raise, or call       *)
(* analyze_conversation.                                                   *)
(***************************************************************************)
Send(reply) == [act |-> "send", reply |-> reply, kind |-> "none", transcripts |-> JNull]

Skip == [act |-> "skip", reply |-> PongReply, kind |-> "none", transcripts |-> JNull]

Raised(kind) == [act |-> "raise", reply |-> PongReply, kind |-> kind, transcripts |-> JNull]

\* Analyze with only the last turn of the list passed on.
AnalyzeLastOnly(ts) ==
  [act |-> "analyze", reply |-> PongReply, kind |-> "none",
   transcripts |-> JList(<<ts.v[Len(ts.v)]>>)]

Analyze(ts) == [act |-> "analyze", reply |-> PongReply, kind |-> "none", transcripts |-> ts]

\* line 60: transcripts[-1] if transcripts else None
LastTranscript(transcripts) ==
  IF ~Truthy(transcripts) THEN [raised |-> "none", val |-> JNull]
  ELSE CASE transcripts.t = "list" ->
              [raised |-> "none", val |-> transcripts.v[Len(transcripts.v)]]
         [] transcripts.t = "str" ->
              [raised |-> "none", val |-> Word(transcripts.v[Len(transcripts.v)])]
         [] transcripts.t = "obj" -> [raised |-> "KeyError", val |-> JNull]
         [] OTHER -> [raised |-> "TypeError", val |-> JNull]

AcceptedSpeakers == {<<"patient">>, <<"counselor">>}

\* HandleLast with every accepted turn analyzed, whoever the speaker is.
HandleLastAnalyzeAll(transcripts, last_transcript) ==
  IF last_transcript.t # "obj" THEN Raised("AttributeError")
  ELSE LET sp   == Get(last_transcript, "speaker", JStr(<<>>))
           text == Get(last_transcript, "text", JStr(<<>>))
       IN  IF sp.t # "str" THEN Raised("AttributeError")
           ELSE LET speaker == StrLower(sp.v)
                IN  IF speaker \notin AcceptedSpeakers \/ ~Truthy(text) THEN Skip
                    ELSE Analyze(transcripts)

\* lines 64-108, for a last transcript that is truthy
HandleLast(transcripts, last_transcript) ==
  IF last_transcript.t # "obj" THEN Raised("AttributeError")
  ELSE LET sp   == Get(last_transcript, "speaker", JStr(<<>>))
           text == Get(last_transcript, "text", JStr(<<>>))
       IN  IF sp.t # "str" THEN Raised("AttributeError")
           ELSE LET speaker == StrLower(sp.v)
                IN  IF speaker \notin AcceptedSpeakers \/ ~Truthy(text) THEN Skip
                    ELSE IF speaker = <<"patient">> THEN Analyze(transcripts)
                    ELSE Send(AcknowledgedReply)

\* lines 56-68
HandleTranscript(data) ==
  LET transcripts == Get(data, "transcripts", EmptyList)
      last        == LastTranscript(transcripts)
  IN  IF last.raised # "none" THEN Raised(last.raised)
      ELSE IF ~Truthy(last.val) THEN Skip
      ELSE HandleLast(transcripts, last.val)

\* HandleMessage without the except clause of json.JSONDecodeError.
HandleMessageNoDecodeClause(message) ==
  IF ~message.wf THEN Raised("JSONDecodeError")
  ELSE LET data == message.data
       IN  IF data.t # "obj" THEN Raised("AttributeError")
           ELSE IF Get(data, "type", JNull) = Word("transcript") THEN HandleTranscript(data)
           ELSE IF Get(data, "type", JNull) = Word("ping") THEN Send(PongReply)
           ELSE Send(UnknownTypeReply(data))

\* lines 55-129, up to the call of analyze_conversation
HandleMessage(message) ==
  IF ~message.wf THEN Send(InvalidJsonReply)
  ELSE LET data == message.data
       IN  IF data.t # "obj" THEN Raised("AttributeError")
           ELSE IF Get(data, "type", JNull) = Word("transcript") THEN HandleTranscript(data)
           ELSE IF Get(data, "type", JNull) = Word("ping") THEN Send(PongReply)
           ELSE Send(UnknownTypeReply(data))

\* counselor_agent.py lines 30-39: what analyze_conversation does before the
\* request: "early" return, "raise" in the rendering loop, or "request".
BeforeRequest(transcripts) ==
  IF ~Truthy(transcripts) THEN "early"
  ELSE IF transcripts.t = "list"
          /\ \E i \in 1..Len(transcripts.v) : transcripts.v[i].t # "obj"
         THEN "raise"
  ELSE "request"

(***************************************************************************)
(* The server: one handle_client coroutine per connection on one event     *)
(* loop.  analyze_conversation is a synchronous call, so the loop runs no  *)
(* other coroutine while a request is outstanding.                         *)
(***************************************************************************)
MaxMsgs == 3

Conns == {1}

VARIABLES
  active_connections,  \* self.active_connections
  total_connections,   \* self.total_connections
  pc,                  \* where each handler is: none, active, analyzing, closed
  transport,           \* the peer's side of each connection: open or closed
  previous_nudges,     \* the handler's local list previous_nudges
  pending,             \* the arguments of the outstanding analyze_conversation call
  cur,                 \* the message being handled, or handled last
  sent,                \* the replies sent for cur
  calls,               \* the analyzer requests made for cur
  raised,              \* the exception caught at line 130 for cur
  returned,            \* what the analyzer request for cur did
  lastResult,          \* the latest result analyze_conversation returned
  handled,             \* how many messages the handler has taken
  outbox,              \* for each reply sent, the number of the message it answers
  accepted             \* the turns that passed the check of line 67, in order

vars ==
  <<active_connections, total_connections, pc, transport, previous_nudges,
    pending, cur, sent, calls, raised, returned, lastResult, handled,
    outbox, accepted>>

\* An optional value is a sequence of length at most one.
None == <<>>

Some(x) == <<x>>

InitOn(conns) ==
  /\ active_connections = 0
  /\ total_connections = 0
  /\ pc = [c \in conns |-> "none"]
  /\ transport = [c \in conns |-> "closed"]
  /\ previous_nudges = [c \in conns |-> EmptyList]
  /\ pending = [c \in conns |-> None]
  /\ cur = [c \in conns |-> None]
  /\ sent = [c \in conns |-> <<>>]
  /\ calls = [c \in conns |-> 0]
  /\ raised = [c \in conns |-> "none"]
  /\ returned = [c \in conns |-> None]
  /\ lastResult = [c \in conns |-> None]
  /\ handled = [c \in conns |-> 0]
  /\ outbox = [c \in conns |-> <<>>]
  /\ accepted = [c \in conns |-> <<>>]

Init == InitOn(Conns)

\* No coroutine is inside the synchronous analyzer request.
LoopFree == \A c \in DOMAIN pc : pc[c] # "analyzing"

\* websocket.py lines 36-51
Connect(c) ==
  /\ pc[c] = "none"
  /\ LoopFree
  /\ pc' = [pc EXCEPT ![c] = "active"]
  /\ transport' = [transport EXCEPT ![c] = "open"]
  /\ previous_nudges' = [previous_nudges EXCEPT ![c] = EmptyList]
  /\ active_connections' = active_connections + 1
  /\ total_connections' = total_connections + 1
  /\ sent' = [sent EXCEPT ![c] = <<ConnectedReply>>]
  /\ outbox' = [outbox EXCEPT ![c] = <<0>>]
  /\ UNCHANGED <<pending, cur, calls, raised, returned, lastResult, handled, accepted>>

\* The peer closes the connection (at any time once it is open).
PeerClose(c) ==
  /\ pc[c] \in {"active", "analyzing"}
  /\ transport[c] = "open"
  /\ transport' = [transport EXCEPT ![c] = "closed"]
  /\ UNCHANGED <<active_connections, total_connections, pc, previous_nudges,
                 pending, cur, sent, calls, raised, returned, lastResult, handled,
                 outbox, accepted>>

\* Decremented for a handler that ends without counting down.
DecrementedLost(n) == n

\* lines 150-152
Decremented(n) == IF n - 1 > 0 THEN n - 1 ELSE 0

\* websocket.send of a reply made while handling a message (lines 87-139):
\* on an open connection the reply goes out and the loop goes on; on a closed
\* one send raises ConnectionClosed, the handler at line 130 fails to send
\* too, and the coroutine leaves through lines 141-152.
\* SendReply for a send that goes through on a closed connection.
SendReplyAfterClose(c, reply) ==
  /\ sent' = [sent EXCEPT ![c] = Append(@, reply)]
  /\ outbox' = [outbox EXCEPT ![c] = Append(@, handled[c])]
  /\ pc' = [pc EXCEPT ![c] = "active"]
  /\ UNCHANGED active_connections

SendReply(c, reply) ==
  IF transport[c] = "open"
    THEN /\ sent' = [sent EXCEPT ![c] = Append(@, reply)]
         /\ outbox' = [outbox EXCEPT ![c] = Append(@, handled[c])]
         /\ pc' = [pc EXCEPT ![c] = "active"]
         /\ UNCHANGED active_connections
    ELSE /\ pc' = [pc EXCEPT ![c] = "closed"]
         /\ active_connections' = Decremented(active_connections)
         /\ UNCHANGED <<sent, outbox>>

\* CarriedNudges with the wrong field of the analysis.
CarriedNudgesFromProblems(analysis) == Get(JObj(analysis), "problems", EmptyList)

\* line 81: previous_nudges = analysis.get("nudges", [])
CarriedNudges(analysis) == Get(JObj(analysis), "nudges", EmptyList)

\* NudgesAfter with previous_nudges kept in one place for all connections.
NudgesAfterShared(c, analysis) ==
  [d \in DOMAIN previous_nudges |-> CarriedNudges(analysis)]

\* lines 39 and 81: previous_nudges is a local variable of c's coroutine
NudgesAfter(c, analysis) ==
  [previous_nudges EXCEPT ![c] = CarriedNudges(analysis)]

\* lines 78-98 and 130-139 once analyze_conversation has returned or raised
Completed(c, outcome) ==
  IF outcome.raised # "none"
    THEN /\ raised' = [raised EXCEPT ![c] = outcome.raised]
         /\ UNCHANGED <<previous_nudges, lastResult>>
         /\ SendReply(c, ErrorReply(outcome.raised))
    ELSE /\ previous_nudges' = NudgesAfter(c, outcome.result)
         /\ lastResult' = [lastResult EXCEPT ![c] = Some(outcome.result)]
         /\ raised' = [raised EXCEPT ![c] = "none"]
         /\ SendReply(c, AnalysisReply(outcome.result))

\* The turn of the message that passes the check of line 67, if any.
AcceptedTurn(message) ==
  LET eff == HandleMessage(message)
  IN  IF eff.act = "analyze" \/ (eff.act = "send" /\ eff.reply.type = "acknowledged")
        THEN Some(LastTranscript(Get(message.data, "transcripts", EmptyList)).val)
        ELSE None

\* CanTake for a handler that starts on a message while its request is out.
CanTakeWhileAnalyzing(c) == pc[c] \in {"active", "analyzing"}

\* line 53: the coroutine is at the head of its loop and the event loop runs it
CanTake(c) == pc[c] = "active" /\ LoopFree

\* One message taken from the connection and handled up to the next point
\* where the coroutine waits (lines 53-139).
Receive(c, message) ==
  /\ CanTake(c)
  /\ transport[c] = "open"
  /\ accepted' = [accepted EXCEPT ![c] = @ \o AcceptedTurn(message)]
  /\ handled[c] < MaxMsgs
  /\ handled' = [handled EXCEPT ![c] = @ + 1]
  /\ cur' = [cur EXCEPT ![c] = Some(message)]
  /\ returned' = [returned EXCEPT ![c] = None]
  /\ UNCHANGED <<total_connections, transport>>
  /\ LET eff    == HandleMessage(message)
         before == IF eff.act = "analyze" THEN BeforeRequest(eff.transcripts) ELSE "none"
     IN  CASE eff.act = "send" ->
                /\ sent' = [sent EXCEPT ![c] = <<eff.reply>>]
                /\ outbox' = [outbox EXCEPT ![c] = Append(@, handled[c] + 1)]
                /\ calls' = [calls EXCEPT ![c] = 0]
                /\ raised' = [raised EXCEPT ![c] = "none"]
                /\ UNCHANGED <<active_connections, pc, previous_nudges, pending, lastResult>>
           [] eff.act = "skip" ->
                /\ sent' = [sent EXCEPT ![c] = <<>>]
                /\ UNCHANGED outbox
                /\ calls' = [calls EXCEPT ![c] = 0]
                /\ raised' = [raised EXCEPT ![c] = "none"]
                /\ UNCHANGED <<active_connections, pc, previous_nudges, pending, lastResult>>
           [] eff.act = "raise" ->
                /\ sent' = [sent EXCEPT ![c] = <<ErrorReply(eff.kind)>>]
                /\ outbox' = [outbox EXCEPT ![c] = Append(@, handled[c] + 1)]
                /\ calls' = [calls EXCEPT ![c] = 0]
                /\ raised' = [raised EXCEPT ![c] = eff.kind]
                /\ UNCHANGED <<active_connections, pc, previous_nudges, pending, lastResult>>
           [] eff.act = "analyze" /\ before = "raise" ->
                /\ sent' = [sent EXCEPT ![c] = <<ErrorReply("AttributeError")>>]
                /\ outbox' = [outbox EXCEPT ![c] = Append(@, handled[c] + 1)]
                /\ calls' = [calls EXCEPT ![c] = 0]
                /\ raised' = [raised EXCEPT ![c] = "AttributeError"]
                /\ UNCHANGED <<active_connections, pc, previous_nudges, pending, lastResult>>
           [] eff.act = "analyze" /\ before = "early" ->
                /\ sent' = [sent EXCEPT ![c] = <<AnalysisReply(EarlyResult)>>]
                /\ outbox' = [outbox EXCEPT ![c] = Append(@, handled[c] + 1)]
                /\ calls' = [calls EXCEPT ![c] = 0]
                /\ raised' = [raised EXCEPT ![c] = "none"]
                /\ previous_nudges' = NudgesAfter(c, EarlyResult)
                /\ lastResult' = [lastResult EXCEPT ![c] = Some(EarlyResult)]
                /\ UNCHANGED <<active_connections, pc, pending>>
           [] eff.act = "analyze" /\ before = "request" ->
                /\ pc' = [pc EXCEPT ![c] = "analyzing"]
                /\ pending' = [pending EXCEPT ![c] =
                     Some([transcripts |-> eff.transcripts,
                           previous_nudges |-> previous_nudges[c]])]
                /\ sent' = [sent EXCEPT ![c] = <<>>]
                /\ UNCHANGED outbox
                /\ calls' = [calls EXCEPT ![c] = 1]
                /\ raised' = [raised EXCEPT ![c] = "none"]
                /\ UNCHANGED <<active_connections, previous_nudges, lastResult>>

\* counselor_agent.py lines 87-169: the request returns the given content.
AnalyzerReturn(c, content) ==
  /\ pc[c] = "analyzing"
  /\ returned' = [returned EXCEPT ![c] = Some([ok |-> TRUE, text |-> content])]
  /\ pending' = [pending EXCEPT ![c] = None]
  /\ Completed(c, NormalizeTable[content])
  /\ UNCHANGED <<total_connections, transport, cur, calls, handled, accepted>>

\* counselor_agent.py lines 87-98 and 159-169: the request raises.
AnalyzerFail(c) ==
  /\ pc[c] = "analyzing"
  /\ returned' = [returned EXCEPT ![c] = Some([ok |-> FALSE, text |-> <<>>])]
  /\ pending' = [pending EXCEPT ![c] = None]
  /\ Completed(c, CatchAll(Raise("APIError")))
  /\ UNCHANGED <<total_connections, transport, cur, calls, handled, accepted>>

\* The loop at line 53 ends because the connection is closed (lines 141-152).
HandlerExit(c) ==
  /\ pc[c] = "active"
  /\ transport[c] = "closed"
  /\ LoopFree
  /\ pc' = [pc EXCEPT ![c] = "closed"]
  /\ active_connections' = Decremented(active_connections)
  /\ UNCHANGED <<total_connections, transport, previous_nudges, pending, cur,
                 sent, calls, raised, returned, lastResult, handled, outbox, accepted>>

Next ==
  \E c \in Conns :
    \/ Connect(c)
    \/ PeerClose(c)
    \/ HandlerExit(c)
    \/ AnalyzerFail(c)
    \/ \E message \in Messages : Receive(c, message)
    \/ \E content \in Texts : AnalyzerReturn(c, content)

Spec == Init /\ [][Next]_vars

(***************************************************************************)
(* Several connections on one server (websocket.py, lines 154-163: one     *)
(* handle_client coroutine per connection, all on one event loop).  The    *)
(* inputs are a few of the messages and texts above.                       *)
(***************************************************************************)
NumConns == 2

MaxTaken == 3

ConnsMulti == 1..NumConns

PingMessage == WellFormed(JObj([type |-> Word("ping")]))

PatientMessage ==
  WellFormed(JObj([type |-> Word("transcript"), transcripts |-> JList(<<TPatient>>)]))

CounselorMessage ==
  WellFormed(JObj([type |-> Word("transcript"), transcripts |-> JList(<<TCounselor>>)]))

MessagesMulti == { PingMessage, PatientMessage, CounselorMessage, BadJson }

TextsMulti ==
  { WrapBare(EncodeTable[JObj(FullValid)]),
    WrapBare(EncodeTable[JObj([nudges |-> LN2])]),
    <<"x">> }

RECURSIVE SumTo(_, _)
SumTo(f, n) == IF n = 0 THEN 0 ELSE f[n] + SumTo(f, n - 1)

\* Messages taken so far over all connections.
Taken == SumTo(handled, NumConns)

InitMulti == InitOn(ConnsMulti)

NextMulti ==
  \E c \in ConnsMulti :
    \/ Connect(c)
    \/ PeerClose(c)
    \/ HandlerExit(c)
    \/ AnalyzerFail(c)
    \/ Taken < MaxTaken /\ \E message \in MessagesMulti : Receive(c, message)
    \/ \E content \in TextsMulti : AnalyzerReturn(c, content)

SpecMulti == InitMulti /\ [][NextMulti]_vars

(***************************************************************************)
(* Vocabulary of the properties.                                           *)
(***************************************************************************)
Opened == DOMAIN pc

Msg(c) == cur[c][1]

\* The step in which connection c takes a message.
Takes(c) == handled'[c] = handled[c] + 1

IsObject(m) == m.wf /\ m.data.t = "obj"

TypeIs(m, word) == IsObject(m) /\ Get(m.data, "type", JNull) = Word(word)

TranscriptsOf(m) == Get(m.data, "transcripts", EmptyList)

HasTurns(m) ==
  TypeIs(m, "transcript") /\ TranscriptsOf(m).t = "list" /\ TranscriptsOf(m).v # <<>>

LastTurn(m) == TranscriptsOf(m).v[Len(TranscriptsOf(m).v)]

\* The speaker of a turn, matched without regard to case, is the given one.
SpeakerIs(turn, who) ==
  /\ "speaker" \in DOMAIN turn.v
  /\ turn.v["speaker"].t = "str"
  /\ StrLower(turn.v["speaker"].v) = <<who>>

EmptyText(turn) == "text" \notin DOMAIN turn.v \/ turn.v["text"] = JStr(<<>>)

\* The last turn of the message is a record with an accepted speaker and a text.
AcceptedLast(m, who) ==
  /\ HasTurns(m)
  /\ LastTurn(m).t = "obj"
  /\ SpeakerIs(LastTurn(m), who)
  /\ ~EmptyText(LastTurn(m))

FiveFields == {"problems", "nudges", "sentiment", "follow_up", "risk"}

TheDegradedResult ==
  [problems |-> JList(<<Word("Unable to analyze")>>),
   nudges |-> JList(<<Word("Review conversation manually")>>),
   sentiment |-> JList(<<Word("neutral")>>), follow_up |-> JStr(<<>>),
   risk |-> JList(<<>>)]

TheErrorResult ==
  [problems |-> JList(<<Word("Error occurred")>>), nudges |-> JList(<<>>),
   sentiment |-> JList(<<Word("neutral")>>), follow_up |-> JStr(<<>>),
   risk |-> JList(<<>>)]

RequestFailed(c) == returned[c] # None /\ ~returned[c][1].ok

RequestReturned(c) == returned[c] # None /\ returned[c][1].ok

(***************************************************************************)
(* C1: the prior guidance passed to the analyzer for a patient turn is     *)
(* exactly the nudges field of the result of the most recent earlier       *)
(* analysis on the same connection, and the empty list when there was      *)
(* none.                                                                   *)
(***************************************************************************)
C1_PriorGuidance ==
  \A c \in Opened :
    pc[c] = "analyzing" =>
      pending[c][1].previous_nudges =
        (IF lastResult[c] = None THEN JList(<<>>) ELSE lastResult[c][1]["nudges"])

C1_Witness ==
  \E c \in Opened :
    /\ pc[c] = "analyzing"
    /\ handled[c] = 3
    /\ lastResult[c] # None
    /\ pending[c][1].previous_nudges = LN1
    /\ lastResult[c][1]["problems"] # LN1

(***************************************************************************)
(* C2 (as claimed): a transcript message whose last turn is accepted gets, *)
(* for a patient, exactly one analyzer request and exactly one reply of    *)
(* type analysis, and for a counselor no request and exactly the           *)
(* acknowledged reply.                                                     *)
(***************************************************************************)
C2_AcceptedTurnReply ==
  \A c \in Opened :
    (cur[c] # None /\ pc[c] = "active") =>
      /\ AcceptedLast(Msg(c), "patient") =>
           calls[c] = 1 /\ Len(sent[c]) = 1 /\ sent[c][1].type = "analysis"
      /\ AcceptedLast(Msg(c), "counselor") =>
           /\ calls[c] = 0
           /\ sent[c] = <<[type |-> "acknowledged", message |-> <<"Transcript received">>]>>

(***************************************************************************)
(* C3 (as claimed): a transcript message with an empty transcript list, or *)
(* whose last turn has a speaker outside patient and counselor or an empty *)
(* text, is dropped: no reply, no analyzer request, carried guidance       *)
(* unchanged.                                                              *)
(***************************************************************************)
InvalidLast(m) ==
  /\ TypeIs(m, "transcript")
  /\ TranscriptsOf(m).t = "list"
  /\ \/ TranscriptsOf(m).v = <<>>
     \/ /\ LastTurn(m).t = "obj"
        /\ \/ ~(SpeakerIs(LastTurn(m), "patient") \/ SpeakerIs(LastTurn(m), "counselor"))
           \/ EmptyText(LastTurn(m))

C3_SilentDrop ==
  [][\A c \in Opened :
       (Takes(c) /\ InvalidLast(cur'[c][1])) =>
         /\ sent'[c] = <<>>
         /\ calls'[c] = 0
         /\ pc'[c] = "active"
         /\ previous_nudges'[c] = previous_nudges[c]]_vars

StrictObjectParse(content) ==
  LET loaded == JsonLoads(StripFences(content))
  IN  loaded.ok /\ loaded.val.t = "obj"

BraceScanParse(content) ==
  LET json_match == BraceSearch(StripFences(content))
  IN  json_match.found /\ JsonLoads(json_match.group).ok

C5_DegradedOnParseFailure ==
  \A c \in Opened :
    ( /\ RequestReturned(c)
      /\ pc[c] = "active"
      /\ ~StrictObjectParse(returned[c][1].text)
      /\ ~BraceScanParse(returned[c][1].text) ) =>
        /\ lastResult[c] = Some(TheDegradedResult)
        /\ Len(sent[c]) = 1
        /\ sent[c][1].type = "analysis"

RaisingMessage(m) ==
  /\ m.wf
  /\ \/ m.data.t # "obj"
     \/ /\ TypeIs(m, "transcript")
        /\ Truthy(TranscriptsOf(m))
        /\ \/ TranscriptsOf(m).t # "list"
           \/ (Truthy(LastTurn(m)) /\ LastTurn(m).t # "obj")

C8_ExceptionCaught ==
  \A c \in Opened :
    (cur[c] # None /\ transport[c] = "open") =>
      /\ RaisingMessage(Msg(c)) => raised[c] # "none"
      /\ raised[c] # "none" =>
           /\ pc[c] = "active"
           /\ calls[c] = 0
           /\ sent[c] = <<[type |-> "error", message |-> <<"Error: ", raised[c]>>]>>

C8_Witness ==
  \E c \in Opened :
    /\ cur[c] = Some(WellFormed(JList(<<>>)))
    /\ transport[c] = "open"
    /\ raised[c] = "AttributeError"
    /\ pc[c] = "active"
    /\ handled[c] < MaxMsgs

(***************************************************************************)
(* C9: whatever was processed before, a ping message gets exactly the      *)
(* reply pong / alive and makes no analyzer request.                       *)
(***************************************************************************)
C9_PingPong ==
  \A c \in Opened :
    (cur[c] # None /\ TypeIs(Msg(c), "ping")) =>
      /\ sent[c] = <<[type |-> "pong", message |-> <<"alive">>]>>
      /\ calls[c] = 0
      /\ pending[c] = None

C9_Witness ==
  \E c \in Opened :
    /\ cur[c] # None
    /\ TypeIs(Msg(c), "ping")
    /\ handled[c] = 3
    /\ lastResult[c] = Some(TheDegradedResult)
    /\ sent[c] = <<[type |-> "pong", message |-> <<"alive">>]>>

(***************************************************************************)
(* C10: a JSON object whose type is neither transcript nor ping (or is     *)
(* missing) gets exactly one reply error / Unknown message type: value     *)
(* with the received value, and leaves the carried guidance unchanged.     *)
(***************************************************************************)
UnknownType(m) == IsObject(m) /\ ~TypeIs(m, "transcript") /\ ~TypeIs(m, "ping")

C10_UnknownType ==
  [][\A c \in Opened :
       (Takes(c) /\ UnknownType(cur'[c][1])) =>
         /\ sent'[c] =
              <<[type |-> "error",
                 message |-> <<"Unknown message type: ">>
                               \o PyStr(Get(cur'[c][1].data, "type", JNull))]>>
         /\ calls'[c] = 0
         /\ pc'[c] = "active"
         /\ previous_nudges'[c] = previous_nudges[c]
         /\ lastResult'[c] = lastResult[c]]_vars

C10_Witness ==
  \E c \in Opened :
    /\ cur[c] = Some(WellFormed(JObj(EmptyDict)))
    /\ previous_nudges[c] = LN1
    /\ sent[c] = <<[type |-> "error", message |-> <<"Unknown message type: ", "None">>]>>

(***************************************************************************)
(* C11 (as claimed): while one connection has a request to the analyzer    *)
(* outstanding, every other open connection whose handler is at the head   *)
(* of its loop can take an inbound message and reply to it.                *)
(***************************************************************************)
CanServe(d) ==
  /\ pc[d] = "active"
  /\ transport[d] = "open"
  /\ handled[d] < MaxMsgs
  /\ Taken < MaxTaken

C11_OthersProgress ==
  \A c \in Opened : \A d \in Opened \ {c} :
    (pc[c] = "analyzing" /\ CanServe(d)) => ENABLED Receive(d, PingMessage)

(***************************************************************************)
(* C12: within one session the handler takes message k+1 only when the     *)
(* handling of message k is over (no request outstanding, the request it   *)
(* made has come back, the carried guidance holds the nudges of its        *)
(* result, its reply has left), and the replies leave in the order of the  *)
(* messages that caused them.                                              *)
(***************************************************************************)
NonDecreasing(seq) ==
  \A i \in DOMAIN seq : \A j \in DOMAIN seq : i < j => seq[i] <= seq[j]

HandlingOver(c) ==
  /\ pc[c] = "active"
  /\ pending[c] = None
  /\ calls[c] = 1 =>
       /\ returned[c] # None
       /\ outbox[c][Len(outbox[c])] = handled[c]
       /\ raised[c] = "none" =>
            /\ lastResult[c] # None
            /\ previous_nudges[c] = Get(JObj(lastResult[c][1]), "nudges", EmptyList)

C12_ArrivalOrder ==
  [][\A c \in Opened :
       /\ Takes(c) => HandlingOver(c)
       /\ NonDecreasing(outbox'[c])
       /\ \A i \in DOMAIN outbox'[c] : outbox'[c][i] <= handled'[c]]_vars

C12_Witness ==
  \E c \in Opened :
    /\ handled[c] = 3
    /\ outbox[c] = <<0, 1, 2, 3>>
    /\ calls[c] = 1
    /\ RequestReturned(c)
    /\ previous_nudges[c] = LN2
    /\ pc[c] = "active"

(***************************************************************************)
(* C13: a connection starts with empty carried guidance; a step in which   *)
(* a connection does not move (a step of another connection) leaves its    *)
(* carried guidance, its request and its replies as they were; and its     *)
(* carried guidance is always the nudges of its own latest result.         *)
(***************************************************************************)
Moves(c) ==
  \/ pc'[c] # pc[c]
  \/ transport'[c] # transport[c]
  \/ handled'[c] # handled[c]
  \/ returned'[c] # returned[c]

C13_Isolation ==
  [][\A c \in Opened :
       /\ (pc[c] = "none" /\ pc'[c] # "none") => previous_nudges'[c] = EmptyList
       /\ ~Moves(c) =>
            /\ previous_nudges'[c] = previous_nudges[c]
            /\ pending'[c] = pending[c]
            /\ lastResult'[c] = lastResult[c]
            /\ sent'[c] = sent[c]
            /\ outbox'[c] = outbox[c]
       /\ previous_nudges'[c] =
            IF lastResult'[c] = None
              THEN EmptyList
              ELSE Get(JObj(lastResult'[c][1]), "nudges", EmptyList)]_vars

C13_Witness ==
  \E c \in Opened : \E d \in Opened :
    /\ pc[c] = "active" /\ pc[d] = "active"
    /\ previous_nudges[c] = LN1
    /\ previous_nudges[d] = LN2

Running == {c \in Opened : pc[c] \in {"active", "analyzing"}}

Started == {c \in Opened : pc[c] # "none"}

CountersExact ==
  /\ active_connections >= 0
  /\ active_connections = Cardinality(Running)
  /\ total_connections = Cardinality(Started)

C16_Counters ==
  [][/\ CountersExact
     /\ CountersExact'
     /\ total_connections' >= total_connections]_vars

C16_Witness ==
  /\ total_connections = 2
  /\ active_connections = 1
  /\ \E c \in Opened : pc[c] = "closed"
  /\ \E d \in Opened : pc[d] = "analyzing"

(***************************************************************************)
(* C17 (as claimed): the turn sequence given to the analyzer for a patient *)
(* turn is the sequence of all turns accepted so far on the connection.    *)
(***************************************************************************)
C17_HistoryGiven ==
  \A c \in Opened :
    pc[c] = "analyzing" => pending[c][1].transcripts = JList(accepted[c])

(***************************************************************************)
(* C17 (amended): the turn sequence given to the analyzer for a patient    *)
(* turn is the transcripts list of the message being handled, whole and in *)
(* its order, and its last element is the latest accepted turn.            *)
(***************************************************************************)
C17_MessageListGiven ==
  \A c \in Opened :
    pc[c] = "analyzing" =>
      /\ pending[c][1].transcripts = TranscriptsOf(Msg(c))
      /\ accepted[c] # <<>>
      /\ LastTurn(Msg(c)) = accepted[c][Len(accepted[c])]

C17_Witness ==
  \E c \in Opened :
    /\ pc[c] = "analyzing"
    /\ accepted[c] = <<TPatient, TCounselor, TPatientCap>>
    /\ pending[c][1].transcripts = JList(<<TPatientCap>>)

(***************************************************************************)
(* C18: the carried guidance of a session changes only in the step that    *)
(* completes the analysis of an accepted patient turn; a step that takes   *)
(* an accepted counselor turn, a ping, a message of unknown type, invalid  *)
(* JSON, a dropped transcript message or a message whose handling raises   *)
(* leaves it as it was, and so does an analysis that raises.               *)
(***************************************************************************)
GuidanceKept(c) == previous_nudges'[c] = previous_nudges[c]

C18_GuidanceFrame ==
  [][\A c \in Opened :
       /\ ~GuidanceKept(c) =>
            /\ pc[c] = "analyzing"
            /\ AcceptedLast(Msg(c), "patient")
            /\ returned'[c] # None
            /\ raised'[c] = "none"
       /\ Takes(c) => GuidanceKept(c)
       /\ raised'[c] # "none" => GuidanceKept(c)]_vars

C18_Witness ==
  \E c \in Opened :
    /\ previous_nudges[c] = LN1
    /\ handled[c] = 3
    /\ AcceptedLast(Msg(c), "counselor")
    /\ sent[c] = <<[type |-> "acknowledged", message |-> <<"Transcript received">>]>>

(***************************************************************************)
(* C19 (as claimed): when the strict step or the brace-scan step parses an *)
(* object out of the analyzer's text, each of problems, nudges, sentiment  *)
(* and risk that the object lacks or holds as a non-list is its default in *)
(* the result, and a lacking follow_up is the empty string.                *)
(***************************************************************************)
\* The object either step parses out of the text, if any.
ParsedObject(content) ==
  LET stripped   == StripFences(content)
      loaded     == JsonLoads(stripped)
      json_match == BraceSearch(stripped)
  IN  IF loaded.ok
        THEN IF loaded.val.t = "obj" THEN Some(loaded.val.v) ELSE None
        ELSE IF json_match.found /\ JsonLoads(json_match.group).ok
               THEN Some(JsonLoads(json_match.group).val.v)
               ELSE None

ListFields == {"problems", "nudges", "sentiment", "risk"}

DefaultOf(k) == IF k = "sentiment" THEN JList(<<Word("neutral")>>) ELSE JList(<<>>)

\* The request of c has returned a text that one of the steps parses.
ParsedFor(c) ==
  /\ RequestReturned(c)
  /\ raised[c] = "none"
  /\ ParsedObject(returned[c][1].text) # None

C19_FieldRepair ==
  \A c \in Opened :
    ParsedFor(c) =>
      LET parsed == ParsedObject(returned[c][1].text)[1]
          result == lastResult[c][1]
      IN  /\ \A k \in ListFields :
               (k \notin DOMAIN parsed \/ parsed[k].t # "list") => result[k] = DefaultOf(k)
          /\ "follow_up" \notin DOMAIN parsed => result["follow_up"] = JStr(<<>>)

(***************************************************************************)
(* C20 (as claimed): when the strict step or the brace-scan step parses an *)
(* object out of the analyzer's text, every string of the sentiment list   *)
(* of the result is lower-cased and has no surrounding whitespace.         *)
(***************************************************************************)
NormalizedEntry(e) == e.t = "str" => e.v = StrStrip(StrLower(e.v))

C20_SentimentNormalized ==
  \A c \in Opened :
    ParsedFor(c) =>
      LET sentiment == lastResult[c][1]["sentiment"]
      IN  /\ sentiment.t = "list"
          /\ \A i \in DOMAIN sentiment.v : NormalizedEntry(sentiment.v[i])

(***************************************************************************)
(* C15 (as claimed): the result for the JSON encoding of a result that has *)
(* all five fields, correctly typed, with sentiment already lower-cased    *)
(* and trimmed, is that result.                                            *)
(***************************************************************************)
StringList(x) == x.t = "list" /\ \A i \in DOMAIN x.v : x.v[i].t = "str"

RiskWords == {<<"low">>, <<"medium">>, <<"high">>}

ValidResult(v) ==
  /\ DOMAIN v = FiveFields
  /\ StringList(v["problems"])
  /\ StringList(v["nudges"])
  /\ StringList(v["sentiment"])
  /\ \A i \in DOMAIN v["sentiment"].v : NormalizedEntry(v["sentiment"].v[i])
  /\ v["follow_up"].t = "str"
  /\ StringList(v["risk"])
  /\ \A i \in DOMAIN v["risk"].v : v["risk"].v[i].v \in RiskWords

C15_RoundTrip ==
  \A c \in Opened : \A v \in AnalyzerDicts :
    ( /\ ValidResult(v)
      /\ RequestReturned(c)
      /\ returned[c][1].text = Encode(JObj(v)) ) =>
        /\ raised[c] = "none"
        /\ lastResult[c] = Some(v)

(***************************************************************************)
(* C21 (as claimed): the sentiment list of every returned result and of    *)
(* every reply of type analysis is not empty, and a sentiment that the     *)
(* parsed object lacks or holds as an empty list is neutral in the result. *)
(***************************************************************************)
NonEmptyList(x) == x.t = "list" /\ x.v # <<>>

C21_SentimentNonEmpty ==
  \A c \in Opened :
    /\ lastResult[c] # None => NonEmptyList(lastResult[c][1]["sentiment"])
    /\ \A i \in DOMAIN sent[c] :
         sent[c][i].type = "analysis" => NonEmptyList(sent[c][i].sentiment)
    /\ ParsedFor(c) =>
         LET parsed == ParsedObject(returned[c][1].text)[1]
         IN  ("sentiment" \notin DOMAIN parsed \/ parsed["sentiment"] = JList(<<>>)) =>
               lastResult[c][1]["sentiment"] = JList(<<Word("neutral")>>)

====
